---- MODULE Spec2Model ----
(***************************************************************************)
(* Model of src/streamlit_app.py: the line classifier                      *)
(* extract_quiz_content_from_docx and the quiz reconstructor               *)
(* generate_quiz_html.                                                     *)
(*                                                                         *)
(* A Python str is a sequence of one-character strings.  The three         *)
(* non-ASCII characters that open the answer marker in the source are the  *)
(* opaque characters "a^", "oe" and "..".  Indices i, next_index, a_pos    *)
(* are 0-based as in the source; At(s, k) reads s[k].                      *)
(***************************************************************************)
EXTENDS Integers, Sequences, FiniteSets, TLC

VARIABLES
    paragraphs,          \* document.paragraphs, each para.text            (l.25)
    docx_ok,             \* whether Document(docx_file) succeeds           (l.21)
    para_idx,            \* position of the for loop over the paragraphs   (l.25)
    content_lines,       \* content_lines                                  (l.22)
    st_error,            \* whether st.error was called                    (l.47)
    quiz_content_lines,  \* argument of generate_quiz_html                 (l.50)
    i,                   \* outer scan index                               (l.59)
    html_output,         \* html_output, one element per appended block    (l.55)
    current_question,    \* current_question                               (l.56)
    in_question_block,   \* in_question_block                              (l.57)
    question_block,      \* question_block of the last header iteration    (l.78)
    next_index,          \* next_index of the last header iteration        (l.79)
    records,             \* history: current_question at the end of each header iteration
    processed,           \* history: the indices i handled by the header branch
    scenario,            \* the parameters the input was built from
    pc

vars == <<paragraphs, docx_ok, para_idx, content_lines, st_error,
          quiz_content_lines, i, html_output, current_question,
          in_question_block, question_block, next_index, records, processed,
          scenario, pc>>

extractVars == <<paragraphs, docx_ok, para_idx, content_lines, st_error>>
generateVars == <<quiz_content_lines, i, html_output, current_question,
                  in_question_block, question_block, next_index, records,
                  processed, scenario>>

-----------------------------------------------------------------------------
(* Bounds of the model *)

MaxLines == 3
MaxParas == 3

-----------------------------------------------------------------------------
(* Python str primitives *)

Min(a, b) == IF a < b THEN a ELSE b
Max(a, b) == IF a > b THEN a ELSE b

At(s, k) == s[k + 1]

Whitespace == {" ", "\t", "\n"}
Digits == {"0", "1", "2", "3", "4", "5", "6", "7", "8", "9"}
OptionLetters == {"A", "B", "C", "D"}
SplitLetters == {"B", "C", "D"}

UpperCase == <<"A", "B", "C", "D", "E", "F", "G", "H", "I", "J", "K", "L", "M",
               "N", "O", "P", "Q", "R", "S", "T", "U", "V", "W", "X", "Y", "Z">>
LowerCase == <<"a", "b", "c", "d", "e", "f", "g", "h", "i", "j", "k", "l", "m",
               "n", "o", "p", "q", "r", "s", "t", "u", "v", "w", "x", "y", "z">>

\* str.lower()
LowerChar(c) ==
    IF \E k \in 1..26 : UpperCase[k] = c
    THEN LowerCase[CHOOSE k \in 1..26 : UpperCase[k] = c]
    ELSE c
Lower(s) == [k \in 1..Len(s) |-> LowerChar(s[k])]

\* str.strip()
RECURSIVE LStrip(_)
LStrip(s) == IF s # <<>> /\ Head(s) \in Whitespace THEN LStrip(Tail(s)) ELSE s
RECURSIVE RStrip(_)
RStrip(s) ==
    IF s # <<>> /\ s[Len(s)] \in Whitespace
    THEN RStrip(SubSeq(s, 1, Len(s) - 1)) ELSE s
Strip(s) == RStrip(LStrip(s))

\* str.startswith(p)
StartsWith(s, p) == Len(s) >= Len(p) /\ SubSeq(s, 1, Len(p)) = p

\* str.find(sub): the 0-based index of the first occurrence, or -1
OccursAt(s, sub, k) == k + Len(sub) <= Len(s) /\ SubSeq(s, k + 1, k + Len(sub)) = sub
Find(s, sub) ==
    IF \E k \in 0..Len(s) : OccursAt(s, sub, k)
    THEN CHOOSE k \in 0..Len(s) :
            OccursAt(s, sub, k) /\ \A j \in 0..(k - 1) : ~OccursAt(s, sub, j)
    ELSE -1

\* str.split(ch, 1): one part if ch is absent, else the text before and after
\* its first occurrence
Split1(s, ch) ==
    LET p == Find(s, <<ch>>)
    IN IF p = -1 THEN <<s>>
       ELSE <<SubSeq(s, 1, p), SubSeq(s, p + 2, Len(s))>>

\* s[:k] and s[k:] for any integer k
SliceTo(s, k) ==
    IF k >= 0 THEN SubSeq(s, 1, Min(k, Len(s)))
    ELSE SubSeq(s, 1, Max(Len(s) + k, 0))
SliceFrom(s, k) ==
    IF k >= 0 THEN SubSeq(s, k + 1, Len(s))
    ELSE SubSeq(s, Max(Len(s) + k, 0) + 1, Len(s))

-----------------------------------------------------------------------------
(* The literals of the source *)

AnswerMarker == <<"a^", "oe", "..", " ", "A", "n", "s", "w", "e", "r", ":">>
PhraseProfit == <<"t", "o", " ", "i", "n", "c", "r", "e", "a", "s", "e", " ",
                  "p", "r", "o", "f", "i", "t">>
PhraseHuman == <<"t", "h", "e", "y", " ", "e", "l", "i", "m", "i", "n", "a",
                 "t", "e", " ", "h", "u", "m", "a", "n">>
PhraseEncrypt == <<"u", "s", "i", "n", "g", " ", "e", "n", "c", "r", "y", "p",
                   "t", "i", "o", "n", " ", "t", "o">>

-----------------------------------------------------------------------------
(* The regular expressions of the source, under re.match *)

\* ^\d{1,2}\. .*
MatchHeader(s) ==
    \/ Len(s) >= 3 /\ s[1] \in Digits /\ s[2] = "." /\ s[3] = " "
    \/ Len(s) >= 4 /\ s[1] \in Digits /\ s[2] \in Digits /\ s[3] = "." /\ s[4] = " "

\* ^[A-D]\. .*   and   ^[A-D]\.
MatchOption(s) ==
    Len(s) >= 3 /\ s[1] \in OptionLetters /\ s[2] = "." /\ s[3] = " "

\* ^\d{1,2}\. .*|<marker>.*
MatchBoundary(s) == MatchHeader(s) \/ StartsWith(s, AnswerMarker)

\* ([A-D]\. )?(.+)
MatchAnswerText(s) == Len(s) >= 1 /\ s[1] # "\n"

\* [B-D]\.  at 0-based position k
DelimAt(s, k) ==
    k + 3 <= Len(s) /\ s[k + 1] \in SplitLetters /\ s[k + 2] = "." /\ s[k + 3] = " "

\* re.split(r'[B-D]\. ', s), without the capturing group: the delimiters are lost
RECURSIVE ReSplitDropsDelims(_)
ReSplitDropsDelims(s) ==
    IF \E k \in 0..Len(s) : DelimAt(s, k)
    THEN LET m == CHOOSE k \in 0..Len(s) :
                     DelimAt(s, k) /\ \A j \in 0..(k - 1) : ~DelimAt(s, j)
         IN <<SubSeq(s, 1, m)>> \o ReSplitDropsDelims(SliceFrom(s, m + 3))
    ELSE <<s>>

\* re.split(r'([B-D]\. )', s): the text pieces with the delimiters kept between them
RECURSIVE ReSplit(_)
ReSplit(s) ==
    IF \E k \in 0..Len(s) : DelimAt(s, k)
    THEN LET m == CHOOSE k \in 0..Len(s) :
                     DelimAt(s, k) /\ \A j \in 0..(k - 1) : ~DelimAt(s, j)
         IN <<SubSeq(s, 1, m), SubSeq(s, m + 1, m + 3)>> \o ReSplit(SliceFrom(s, m + 3))
    ELSE <<s>>

-----------------------------------------------------------------------------
(* generate_quiz_html: the pieces of one header iteration *)

EmptyText == <<>>

\* the rendered blocks, one per html_output.append
QuestionHtml(num, text) == [kind |-> "question", num |-> num, body |-> text]
OptionHtml(opt) == [kind |-> "option", num |-> EmptyText, body |-> opt]
AnswerHtml(answer) == [kind |-> "correct_answer", num |-> EmptyText, body |-> answer]

\* current_question = {}
NoQuestion ==
    [number |-> EmptyText, text |-> EmptyText, options |-> <<>>, answer |-> EmptyText]

\* line = quiz_content_lines[i].strip()
LineAt(lines, k) == Strip(At(lines, k))

\* if in_question_block: html_output.append(Correct Answer of current_question)
CloseBlock(html, inq, cq) ==
    IF inq THEN Append(html, AnswerHtml(cq.answer)) ELSE html

\* the same for the final question, once the loop has ended
FinalFlushMissing(html, inq, cq) == html
FinalFlush(html, inq, cq) ==
    IF inq THEN Append(html, AnswerHtml(cq.answer)) ELSE html

\* q_num = line.split('.', 1)[0].strip()
QNum(line) == Strip(Split1(line, ".")[1])

\* the inner while loop: the first index from k on that holds a boundary line,
\* or len(quiz_content_lines)
RECURSIVE NextIndexFrom(_, _)
NextIndexFrom(lines, k) ==
    IF k < Len(lines) /\ ~MatchBoundary(LineAt(lines, k))
    THEN NextIndexFrom(lines, k + 1)
    ELSE k
\* the inner loop with a boundary test that takes option lines for boundaries too
RECURSIVE NextIndexFromOptionStops(_, _)
NextIndexFromOptionStops(lines, k) ==
    IF k < Len(lines) /\ ~MatchBoundary(LineAt(lines, k)) /\ ~MatchOption(LineAt(lines, k))
    THEN NextIndexFromOptionStops(lines, k + 1)
    ELSE k
NextIndexOptionStops(lines, k) == NextIndexFromOptionStops(lines, k + 1)
NextIndex(lines, k) == NextIndexFrom(lines, k + 1)

\* question_block = line + the stripped lines k .. upto-1
RECURSIVE JoinLines(_, _, _)
JoinLines(lines, k, upto) ==
    IF k < upto THEN LineAt(lines, k) \o JoinLines(lines, k + 1, upto) ELSE <<>>
QuestionBlock(lines, k) == JoinLines(lines, k, NextIndex(lines, k))

\* a_pos = question_block.find("A.")
APos(block) == Find(block, <<"A", ".">>)

\* q_text without the .strip() of the branch that finds no "A."
QTextNoStrip(block) ==
    LET parts == Split1(block, ".")
    IN IF APos(block) # -1
       THEN Strip(SliceTo(parts[2], APos(block) - Len(parts[1]) - 1))
       ELSE parts[2]

\* q_text on both branches of  if a_pos != -1
QText(block) ==
    LET parts == Split1(block, ".")
    IN IF APos(block) # -1
       THEN Strip(SliceTo(parts[2], APos(block) - Len(parts[1]) - 1))
       ELSE Strip(parts[2])

\* the regrouping loop over options_list
RECURSIVE Regroup(_, _, _)
Regroup(items, final, temp) ==
    IF items = <<>>
    THEN IF temp # <<>> THEN Append(final, Strip(temp)) ELSE final
    ELSE IF MatchOption(Head(items))
         THEN Regroup(Tail(items),
                      IF temp # <<>> THEN Append(final, Strip(temp)) ELSE final,
                      Head(items))
         ELSE Regroup(Tail(items), final, temp \o Head(items))

\* final_options on both branches of  if a_pos != -1
FinalOptions(block) ==
    IF APos(block) # -1
    THEN Regroup(ReSplit(Strip(SliceFrom(block, APos(block)))), <<>>, <<>>)
    ELSE <<>>

\* current_question = {...}
NewQuestion(lines, k) ==
    [number |-> QNum(LineAt(lines, k)),
     text |-> QText(QuestionBlock(lines, k)),
     options |-> FinalOptions(QuestionBlock(lines, k)),
     answer |-> EmptyText]

\* a filter that asks for text after the two characters of the marker
TruthyHasText(opt) == Len(opt) > 2

\* for opt in current_question["options"]: if opt: append
Truthy(opt) == opt # <<>>
RenderOptions(options) ==
    LET kept == SelectSeq(options, Truthy)
    IN [k \in 1..Len(kept) |-> OptionHtml(kept[k])]

\* the header block and the option blocks of a new record
RenderQuestion(html, cq) ==
    Append(html, QuestionHtml(cq.number, cq.text)) \o RenderOptions(cq.options)

\* answer_index < len(...) and the line there starts with the answer marker
HasAnswerLine(lines, answer_index) ==
    answer_index < Len(lines) /\ StartsWith(LineAt(lines, answer_index), AnswerMarker)

\* answer_text = answer_line.split(":", 1)[-1].strip(), stored if the regex matches
AnswerText(answer_line) ==
    LET parts == Split1(answer_line, ":")
    IN Strip(parts[Len(parts)])
AnswerOf(lines, answer_index) ==
    IF HasAnswerLine(lines, answer_index)
       /\ MatchAnswerText(AnswerText(LineAt(lines, answer_index)))
    THEN AnswerText(LineAt(lines, answer_index))
    ELSE EmptyText

\* the else branch without the rewind, and with a rewind of two
HeaderScanIndexNoRewind(lines, answer_index) == answer_index
HeaderScanIndexRewindTwo(lines, answer_index) ==
    IF HasAnswerLine(lines, answer_index) THEN answer_index ELSE answer_index - 2

\* i at the end of the header branch, before the shared  i += 1
HeaderScanIndex(lines, answer_index) ==
    IF HasAnswerLine(lines, answer_index) THEN answer_index ELSE answer_index - 1

-----------------------------------------------------------------------------
(* The inputs *)

BoundedSeqs(S, n) == UNION {[1..k -> S] : k \in 0..n}

\* lines given to generate_quiz_html: blank, headers, options, answer lines,
\* a continuation phrase and lines of no kind
LinePool ==
    {<<>>,
     <<" ", "\t">>,
     <<" ", "1", ".", " ", "x">>,
     <<"1", "2", ".", " ", "A", ".", " ", "x">>,
     <<"2", ".", " ", "y", "A">>,
     <<"A", ".", " ", "x">>,
     <<"B", ".", " ", "y", " ">>,
     <<"B", ".", " ", "C", ".", " ", "y">>,
     <<"D", ".", " ", "A", ".", " ", "z">>,
     AnswerMarker \o <<" ", "B", ".", " ", "y">>,
     AnswerMarker,
     PhraseProfit,
     <<"T", "i", "t", "l", "e">>,
     <<"1", "2", "3", ".", " ", "x">>,
     <<"3", ".", " ", "x", "A", ".", " ", "y", "B", ".", " ", "z">>,
     <<"A", ".", "x">>,
     <<"C", ".", " ", "z">>,
     AnswerMarker \o <<"x", ":", "y">>}

\* para.text of the paragraphs of a document
ParagraphPool ==
    { <<>>,
     <<" ", " ">>,
     <<" ", "1", ".", " ", "x", " ">>,
     <<"1", "2", ".", " ", "y">>,
     <<"1", "2", "3", ".", " ", "x">>,
     <<"1", ".", "x">>,
     <<"A", ".", " ", "x">>,
     <<"E", ".", " ", "x">>,
     <<"d", ".", " ", "x">>,
     <<"D", ".", "x">>,
     AnswerMarker \o <<" ", "B", ".", " ", "y">>,
     <<"A", "n", "s", "w", "e", "r", ":", " ", "B">>,
     <<"T", "o", " ", "I", "n", "c", "r", "e", "a", "s", "e", " ", "P", "r", "o", "f", "i", "t", " ", "2", ".", " ", "x">>,
     <<"\t", "T", "H", "E", "Y", " ", "E", "L", "I", "M", "I", "N", "A", "T", "E", " ", "H", "U", "M", "A", "N">>,
     PhraseEncrypt,
     <<"i", "n", "c", "r", "e", "a", "s", "e", " ", "p", "r", "o", "f", "i", "t">>,
     <<"T", "i", "t", "l", "e">>}

\* the parts the two fixed layouts are built from
LabelPool == {<<"1">>, <<"1", "2">>}
QuestionPool ==
    {<<"x", "?">>,
     <<"x", "A">>,
     <<"B", ".", " ", "x">>,
     <<" ", "x">>,
     <<"A", ".", "x">>}
OptionTextPool ==
    {<<"x">>,
     <<"y", "B">>,
     <<"C", ".", " ", "z">>}
AnswerTextPool ==
    {<<>>,
     <<" ", "B", ".", " ", "y">>,
     <<"x", ":", "y">>}
ContinuationPool ==
    {PhraseProfit,
     <<"U", "S", "I", "N", "G", " ", "E", "N", "C", "R", "Y", "P", "T", "I", "O", "N", " ", "T", "O", " ", "x", "A">>,
     <<"B", ".", " ", "y">>,
     <<"D", ".", " ", "A", ".", " ", "z">>}

DotSpace == <<".", " ">>
HeaderLine(n, q) == n \o DotSpace \o q
OptionLine(letter, text) == <<letter>> \o DotSpace \o text
AnswerLine(x) == AnswerMarker \o x

NoScenario ==
    [kind |-> "general", n |-> <<>>, q |-> <<>>, c1 |-> <<>>, c2 |-> <<>>,
     a |-> <<>>, b |-> <<>>, c |-> <<>>, d |-> <<>>, x |-> <<>>]

\* any sequence of at most MaxLines lines of the pool
GeneralInput ==
    /\ quiz_content_lines \in BoundedSeqs(LinePool, MaxLines)
    /\ scenario = NoScenario

\* header, four option lines, answer line
EndToEndInput ==
    \E n \in LabelPool, q \in QuestionPool, x \in AnswerTextPool,
       a \in OptionTextPool, b \in OptionTextPool, c \in OptionTextPool,
       d \in OptionTextPool :
        /\ quiz_content_lines =
              <<HeaderLine(n, q), OptionLine("A", a), OptionLine("B", b),
                OptionLine("C", c), OptionLine("D", d), AnswerLine(x)>>
        /\ scenario = [kind |-> "end_to_end", n |-> n, q |-> q, c1 |-> <<>>,
                       c2 |-> <<>>, a |-> a, b |-> b, c |-> c, d |-> d, x |-> x]

\* header, two continuation lines, four option lines
MultiParagraphInput ==
    \E n \in LabelPool, q \in QuestionPool \ {<<" ", "x">>},
       c1 \in ContinuationPool, c2 \in ContinuationPool,
       a \in OptionTextPool \ {<<"y", "B">>}, b \in OptionTextPool \ {<<"y", "B">>},
       c \in OptionTextPool \ {<<"y", "B">>}, d \in OptionTextPool \ {<<"y", "B">>} :
        /\ quiz_content_lines =
              <<HeaderLine(n, q), c1, c2, OptionLine("A", a), OptionLine("B", b),
                OptionLine("C", c), OptionLine("D", d)>>
        /\ scenario = [kind |-> "multi_paragraph", n |-> n, q |-> q, c1 |-> c1,
                       c2 |-> c2, a |-> a, b |-> b, c |-> c, d |-> d, x |-> <<>>]

ExtractIdle ==
    /\ paragraphs = <<>>
    /\ docx_ok = TRUE
    /\ para_idx = 0
    /\ content_lines = <<>>
    /\ st_error = FALSE

GenerateStart ==
    /\ i = 0
    /\ html_output = <<>>
    /\ current_question = NoQuestion
    /\ in_question_block = FALSE
    /\ question_block = <<>>
    /\ next_index = 0
    /\ records = <<>>
    /\ processed = <<>>

\* generate_quiz_html(quiz_content_lines) is entered
Init ==
    /\ ExtractIdle
    /\ GenerateStart
    /\ pc = "scan"
    /\ GeneralInput \/ EndToEndInput \/ MultiParagraphInput

\* extract_quiz_content_from_docx(docx_file) is entered
InitExtract ==
    /\ \/ docx_ok = TRUE /\ paragraphs \in BoundedSeqs(ParagraphPool, MaxParas)
       \/ docx_ok = FALSE /\ paragraphs = <<>>
    /\ para_idx = 0
    /\ content_lines = <<>>
    /\ st_error = FALSE
    /\ GenerateStart
    /\ quiz_content_lines = <<>>
    /\ scenario = NoScenario
    /\ pc = "extract"

-----------------------------------------------------------------------------
(* generate_quiz_html: one action per path through the while loop body *)

\* while i < len(quiz_content_lines)
InLoop(lines, k) == k < Len(lines)

\* if not line
AtBlank(lines, k) == InLoop(lines, k) /\ LineAt(lines, k) = <<>>

\* if re.match(r'^\d{1,2}\. .*', line), reached with a non-empty line
AtHeader(lines, k) ==
    InLoop(lines, k) /\ LineAt(lines, k) # <<>> /\ MatchHeader(LineAt(lines, k))

\* a non-empty line that is no question header
AtOther(lines, k) ==
    InLoop(lines, k) /\ LineAt(lines, k) # <<>> /\ ~MatchHeader(LineAt(lines, k))

\* if not line: i += 1; continue
BlankLine ==
    /\ pc = "scan"
    /\ AtBlank(quiz_content_lines, i)
    /\ i' = i + 1
    /\ UNCHANGED <<quiz_content_lines, html_output, current_question,
                   in_question_block, question_block, next_index, records,
                   processed, scenario, pc>>
    /\ UNCHANGED extractVars

\* a non-empty line that is no question header: only the shared i += 1
OtherLine ==
    /\ pc = "scan"
    /\ AtOther(quiz_content_lines, i)
    /\ i' = i + 1
    /\ UNCHANGED <<quiz_content_lines, html_output, current_question,
                   in_question_block, question_block, next_index, records,
                   processed, scenario, pc>>
    /\ UNCHANGED extractVars

\* the header branch, then the shared i += 1
QuestionHeader ==
    /\ pc = "scan"
    /\ AtHeader(quiz_content_lines, i)
    /\ LET lines == quiz_content_lines
           closed == CloseBlock(html_output, in_question_block, current_question)
           question == NewQuestion(lines, i)
           answer_index == NextIndex(lines, i)
           answered == [question EXCEPT !.answer = AnswerOf(lines, answer_index)]
       IN /\ in_question_block' = TRUE
          /\ question_block' = QuestionBlock(lines, i)
          /\ next_index' = answer_index
          /\ html_output' = RenderQuestion(closed, question)
          /\ current_question' = answered
          /\ i' = HeaderScanIndex(lines, answer_index) + 1
          /\ records' = Append(records, answered)
          /\ processed' = Append(processed, i)
    /\ UNCHANGED <<quiz_content_lines, scenario, pc>>
    /\ UNCHANGED extractVars

\* the loop ends: the final question's answer is added and the markup returned
Finish ==
    /\ pc = "scan"
    /\ ~InLoop(quiz_content_lines, i)
    /\ html_output' = FinalFlush(html_output, in_question_block, current_question)
    /\ pc' = "done"
    /\ UNCHANGED <<quiz_content_lines, i, current_question, in_question_block,
                   question_block, next_index, records, processed, scenario>>
    /\ UNCHANGED extractVars

Next == BlankLine \/ OtherLine \/ QuestionHeader \/ Finish

Spec == Init /\ [][Next]_vars

-----------------------------------------------------------------------------
(* extract_quiz_content_from_docx *)

\* re.match(r'^\d{1,2}\. .*', text)
IsQuestionLine(text) == MatchHeader(text)

\* text.startswith(<marker>)
IsAnswerLine(text) == StartsWith(text, AnswerMarker)

\* the same test without .lower()
IsOptionOrContinuationCaseSensitive(text) ==
    \/ MatchOption(text)
    \/ StartsWith(text, PhraseProfit)
    \/ StartsWith(text, PhraseHuman)
    \/ StartsWith(text, PhraseEncrypt)

\* re.match(r'^[A-D]\. .*', text) or text.lower().startswith(<phrase>) ...
IsOptionOrContinuation(text) ==
    \/ MatchOption(text)
    \/ StartsWith(Lower(text), PhraseProfit)
    \/ StartsWith(Lower(text), PhraseHuman)
    \/ StartsWith(Lower(text), PhraseEncrypt)

\* the body of the for loop: content_lines after one paragraph
ClassifyParagraph(content, para_text) ==
    LET text == Strip(para_text)
    IN IF text # <<>>
       THEN IF IsQuestionLine(text) THEN Append(content, text)
            ELSE IF IsAnswerLine(text) THEN Append(content, text)
            ELSE IF IsOptionOrContinuation(text) THEN Append(content, text)
            ELSE content
       ELSE content

\* one iteration of  for para in document.paragraphs
ExtractParagraph ==
    /\ pc = "extract"
    /\ docx_ok
    /\ para_idx < Len(paragraphs)
    /\ content_lines' = ClassifyParagraph(content_lines, At(paragraphs, para_idx))
    /\ para_idx' = para_idx + 1
    /\ UNCHANGED <<paragraphs, docx_ok, st_error, pc>>
    /\ UNCHANGED generateVars

\* return content_lines
ExtractReturn ==
    /\ pc = "extract"
    /\ docx_ok
    /\ para_idx >= Len(paragraphs)
    /\ pc' = "extracted"
    /\ UNCHANGED <<paragraphs, docx_ok, para_idx, content_lines, st_error>>
    /\ UNCHANGED generateVars

\* Document(docx_file) raises: st.error(...); return []
ExtractError ==
    /\ pc = "extract"
    /\ ~docx_ok
    /\ st_error' = TRUE
    /\ content_lines' = <<>>
    /\ pc' = "extracted"
    /\ UNCHANGED <<paragraphs, docx_ok, para_idx>>
    /\ UNCHANGED generateVars

NextExtract == ExtractParagraph \/ ExtractReturn \/ ExtractError

SpecExtract == InitExtract /\ [][NextExtract]_vars

-----------------------------------------------------------------------------
(* Vocabulary of the properties *)

\* a line sequence the classifier can return: every line is trimmed, non-empty
\* and of a kept kind
ClassifiedLine(line) == ClassifyParagraph(<<>>, line) = <<line>>
Classified(lines) == \A k \in 1..Len(lines) : ClassifiedLine(lines[k])

Contains(s, sub) ==
    \E k \in 1..Len(s) :
        k + Len(sub) - 1 <= Len(s) /\ \A j \in 1..Len(sub) : s[k + j - 1] = sub[j]
ADot == <<"A", ".">>

\* an uppercase letter A-D directly followed by a period
HasLetterDot(s) ==
    \E k \in 1..(Len(s) - 1) : s[k] \in {"A", "B", "C", "D"} /\ s[k + 1] = "."

IsHeaderAt(lines, k) == MatchHeader(Strip(lines[k + 1]))
IsBoundaryAt(lines, k) ==
    IsHeaderAt(lines, k) \/ StartsWith(Strip(lines[k + 1]), AnswerMarker)

\* the 0-based indices of the question-header lines, ascending
HeaderIndexSeq(lines) ==
    LET IsH(k) == IsHeaderAt(lines, k)
    IN SelectSeq([k \in 1..Len(lines) |-> k - 1], IsH)

\* the index of the first boundary line after the header at h, or the length
FirstBoundaryAfter(lines, h) ==
    CHOOSE j \in (h + 1)..Len(lines) :
        /\ j = Len(lines) \/ IsBoundaryAt(lines, j)
        /\ \A m \in (h + 1)..(j - 1) : ~IsBoundaryAt(lines, m)

\* the merged question block of the header at h: the trimmed lines from h up
\* to the next boundary line, joined with nothing between them
RECURSIVE Joined(_, _, _)
Joined(lines, from, upto) ==
    IF from >= upto THEN <<>>
    ELSE Joined(lines, from, upto - 1) \o Strip(lines[upto])
MergedBlock(lines, h) == Joined(lines, h, FirstBoundaryAfter(lines, h))

\* the blocks of one record: header, options in list order, Correct Answer
GroupOf(r) ==
    <<[kind |-> "question", num |-> r.number, body |-> r.text]>>
    \o [k \in 1..Len(r.options) |->
            [kind |-> "option", num |-> <<>>, body |-> r.options[k]]]
    \o <<[kind |-> "correct_answer", num |-> <<>>, body |-> r.answer]>>
RECURSIVE GroupsOf(_)
GroupsOf(rs) == IF rs = <<>> THEN <<>> ELSE GroupOf(Head(rs)) \o GroupsOf(Tail(rs))

\* the blocks appended for the record opened last
RECURSIVE LastGroup(_)
LastGroup(html) ==
    IF html = <<>> THEN <<>>
    ELSE IF html[Len(html)].kind = "question" THEN <<html[Len(html)]>>
    ELSE LastGroup(SubSeq(html, 1, Len(html) - 1)) \o <<html[Len(html)]>>

\* the options blob of a merged block: the block from its first "A." on
BlobOf(block) ==
    LET p == CHOOSE k \in 1..Len(block) :
                 /\ k < Len(block) /\ block[k] = "A" /\ block[k + 1] = "."
                 /\ \A j \in 1..(k - 1) : ~(block[j] = "A" /\ block[j + 1] = ".")
    IN SubSeq(block, p, Len(block))

\* in blob, the marker of letter stands with no text before the next marker
\* or the end of the blob
MarkerAt(s, k, letters) ==
    k + 2 <= Len(s) /\ s[k] \in letters /\ s[k + 1] = "." /\ s[k + 2] = " "
BareMarker(blob, letter) ==
    \E k \in 1..Len(blob) :
        /\ MarkerAt(blob, k, {letter})
        /\ k + 2 = Len(blob) \/ MarkerAt(blob, k + 3, {"A", "B", "C", "D"})

-----------------------------------------------------------------------------
(* C1 *)

\* C1: for every classified input, every emitted question record has a
\* non-empty number and a non-empty text.
C1_NumberAndTextNonEmpty ==
    Classified(quiz_content_lines) =>
        \A k \in 1..Len(records) :
            records[k].number # <<>> /\ records[k].text # <<>>

-----------------------------------------------------------------------------
(* C2 *)

\* C2: for every classified input, a record with options has between 1 and 4
\* of them, and no two of them begin with the same letter A-D.
C2_OptionsDistinctByLetter ==
    Classified(quiz_content_lines) =>
        \A k \in 1..Len(records) :
            LET opts == records[k].options
            IN opts # <<>> =>
                /\ Len(opts) \in 1..4
                /\ \A m \in 1..Len(opts) :
                       opts[m] # <<>> /\ opts[m][1] \in {"A", "B", "C", "D"}
                /\ \A m, n \in 1..Len(opts) : m # n => opts[m][1] # opts[n][1]

-----------------------------------------------------------------------------
(* C3 *)

\* the precondition of C3 on the parts of the input: Q holds no "A.", and no
\* option text holds a letter A-D directly followed by a period
C3_Pre ==
    /\ scenario.kind = "end_to_end"
    /\ ~Contains(scenario.q, ADot)
    /\ ~HasLetterDot(scenario.a) /\ ~HasLetterDot(scenario.b)
    /\ ~HasLetterDot(scenario.c) /\ ~HasLetterDot(scenario.d)

C3_Options ==
    <<<<"A", ".", " ">> \o scenario.a, <<"B", ".", " ">> \o scenario.b,
      <<"C", ".", " ">> \o scenario.c, <<"D", ".", " ">> \o scenario.d>>

-----------------------------------------------------------------------------
(* C4 *)

\* C4: when the scan has ended, the block list is one group per
\* question-header line of the input, in input order; each group is the header
\* block of that header's record, one block per option in list order, and one
\* Correct Answer block with that record's own answer, the last record included.
C4_OneGroupPerHeader ==
    pc = "done" =>
        /\ processed = HeaderIndexSeq(quiz_content_lines)
        /\ Len(records) = Len(processed)
        /\ \A k \in 1..Len(records) :
              StartsWith(Strip(quiz_content_lines[processed[k] + 1]),
                         records[k].number \o <<".">>)
        /\ html_output = GroupsOf(records)

C4_Witness ==
    /\ pc = "done"
    /\ Classified(quiz_content_lines)
    /\ Len(records) = 2
    /\ records[1].options # <<>>
    /\ records[1].answer # <<>>
    /\ records[2].answer = <<>>

-----------------------------------------------------------------------------
(* C5 *)

\* the header at processed[k] is followed, after its merged block, by another
\* question header and not by an answer line
C5_HeaderFollows(k) ==
    LET nb == FirstBoundaryAfter(quiz_content_lines, processed[k])
    IN nb < Len(quiz_content_lines) /\ IsHeaderAt(quiz_content_lines, nb)

\* C5: when the first boundary line after a header's merged block is another
\* question header, that record's answer is empty and the scan continues at
\* that header, which is handled next as the header of its own record.
C5_NoAnswerLine ==
    \A k \in 1..Len(processed) :
        C5_HeaderFollows(k) =>
            /\ records[k].answer = <<>>
            /\ IF k = Len(processed)
               THEN pc = "scan"
                    /\ i = FirstBoundaryAfter(quiz_content_lines, processed[k])
               ELSE processed[k + 1] =
                        FirstBoundaryAfter(quiz_content_lines, processed[k])

C5_Witness ==
    /\ Len(processed) = 2
    /\ C5_HeaderFollows(1)
    /\ processed[2] = processed[1] + 2
    /\ records[2].number # records[1].number

-----------------------------------------------------------------------------
(* C6 *)

\* the text of block after its label and the period that ends the label
AfterLabel(block) ==
    LET n == IF block[2] = "." THEN 1 ELSE 2
    IN SubSeq(block, n + 2, Len(block))

\* C6: when the merged block of a header holds no "A.", the record has no
\* options and its text is the rest of the block after the label and its
\* period, trimmed.
C6_NoOptions ==
    \A k \in 1..Len(processed) :
        LET block == MergedBlock(quiz_content_lines, processed[k])
        IN ~Contains(block, ADot) =>
              /\ records[k].options = <<>>
              /\ records[k].text = Strip(AfterLabel(block))

C6_Witness ==
    /\ Len(processed) = 1
    /\ ~Contains(MergedBlock(quiz_content_lines, processed[1]), ADot)
    /\ FirstBoundaryAfter(quiz_content_lines, processed[1]) = processed[1] + 3
    /\ Len(records[1].text) > 6

-----------------------------------------------------------------------------
(* C7 *)

\* the precondition of C7: none of the three fragments holds "A."
C7_Pre ==
    /\ scenario.kind = "multi_paragraph"
    /\ ~Contains(scenario.q, ADot)
    /\ ~Contains(scenario.c1, ADot)
    /\ ~Contains(scenario.c2, ADot)

C7_OptionLines ==
    <<<<"A", ".", " ">> \o scenario.a, <<"B", ".", " ">> \o scenario.b,
      <<"C", ".", " ">> \o scenario.c, <<"D", ".", " ">> \o scenario.d>>

C7_PlainOptions ==
    /\ ~HasLetterDot(scenario.a) /\ ~HasLetterDot(scenario.b)
    /\ ~HasLetterDot(scenario.c) /\ ~HasLetterDot(scenario.d)

\* the texts of a list joined, and a text without its white space
RECURSIVE Flatten(_)
Flatten(ss) == IF ss = <<>> THEN <<>> ELSE Head(ss) \o Flatten(Tail(ss))
IsVisible(ch) == ch \notin {" ", "\t", "\n"}
Visible(s) == SelectSeq(s, IsVisible)

\* C7: for a header, two continuation lines and the option lines A-D, under
\* C7_Pre, the one record's text is the header's text and the two continuation
\* lines joined in input order and trimmed, and no option is lost or absorbed
\* into the text: the list has at least four options which together hold
\* every character of the four option lines, and it is exactly the four
\* option lines when no option text holds a letter-and-period itself.
C7_MultiParagraph ==
    (pc = "done" /\ C7_Pre) =>
        /\ Len(records) = 1
        /\ records[1].text = Strip(scenario.q \o scenario.c1 \o scenario.c2)
        /\ Len(records[1].options) >= 4
        /\ Visible(Flatten(records[1].options)) = Visible(Flatten(C7_OptionLines))
        /\ C7_PlainOptions => records[1].options = C7_OptionLines

C7_Witness ==
    /\ pc = "done" /\ C7_Pre /\ C7_PlainOptions
    /\ scenario.c1 = PhraseProfit
    /\ scenario.c2 = <<"B", ".", " ", "y">>
    /\ Len(records[1].options) = 4
    /\ Len(records[1].text) > Len(PhraseProfit)

-----------------------------------------------------------------------------
(* C8 *)

\* text starts with phrase, letter case ignored
StartsWithIgnoringCase(text, phrase) ==
    /\ Len(text) >= Len(phrase)
    /\ \A k \in 1..Len(phrase) : LowerChar(text[k]) = phrase[k]

\* the kinds of line the classifier is to keep
IsKeptKind(text) ==
    \/ /\ Len(text) >= 3 /\ text[1] \in Digits
       /\ \/ text[2] = "." /\ text[3] = " "
          \/ Len(text) >= 4 /\ text[2] \in Digits /\ text[3] = "." /\ text[4] = " "
    \/ Len(text) >= 3 /\ text[1] \in {"A", "B", "C", "D"} /\ text[2] = "." /\ text[3] = " "
    \/ StartsWith(text, AnswerMarker)
    \/ \E phrase \in {PhraseProfit, PhraseHuman, PhraseEncrypt} :
           StartsWithIgnoringCase(text, phrase)

\* the trimmed, non-empty paragraphs of a kept kind among the first n, in order
KeptAmong(paras, n) ==
    LET Keep(text) == text # <<>> /\ IsKeptKind(text)
    IN SelectSeq([k \in 1..n |-> Strip(paras[k])], Keep)

\* C8: the classifier returns exactly the order-preserving subsequence of the
\* trimmed non-empty paragraphs that are a question header, an option line, an
\* answer-marker line or start with an allow-listed phrase (case ignored);
\* each such paragraph is kept once, every other is dropped without an error.
C8_ClassifierIsFilter ==
    docx_ok =>
        /\ content_lines = KeptAmong(paragraphs, para_idx)
        /\ pc = "extracted" => para_idx = Len(paragraphs)
        /\ st_error = FALSE

C8_Witness ==
    /\ pc = "extracted"
    /\ Len(paragraphs) = 3
    /\ Len(content_lines) = 2
    /\ content_lines[1] = <<"T", "H", "E", "Y", " ", "E", "L", "I", "M", "I", "N",
                            "A", "T", "E", " ", "H", "U", "M", "A", "N">>
    /\ content_lines[2] = <<"1", ".", " ", "x">>
    /\ paragraphs[2] = <<"1", "2", "3", ".", " ", "x">>

-----------------------------------------------------------------------------
(* C9 *)

\* the case of C9: the record opened last has, in its options blob, the marker
\* of letter with no text before the next marker or the end of the blob
C9_Case(letter) ==
    /\ pc = "scan"
    /\ processed # <<>>
    /\ Contains(question_block, ADot)
    /\ BareMarker(BlobOf(question_block), letter)

C9_BlockOf(letter) ==
    \E k \in 1..Len(LastGroup(html_output)) :
        /\ LastGroup(html_output)[k].kind = "option"
        /\ LastGroup(html_output)[k].body = <<letter, ".">>

\* C9 as stated: an option whose marker 'B. ', 'C. ' or 'D. ' is followed by
\* no text is dropped, no option block is rendered for it.
C9_EmptyOptionDropped ==
    \A letter \in {"B", "C", "D"} : C9_Case(letter) => ~C9_BlockOf(letter)

\* C9 as amended: nothing is dropped.  Every entry of an options list is
\* non-empty and gets its option block; a marker 'B. ', 'C. ' or 'D. ' that is
\* followed by no text before the next marker is kept as the option made of
\* the trimmed marker alone and rendered as such.
C9_EmptyOptionRendered ==
    /\ \A letter \in {"B", "C", "D"} : C9_Case(letter) => C9_BlockOf(letter)
    /\ \A k \in 1..Len(records) :
           \A m \in 1..Len(records[k].options) : records[k].options[m] # <<>>
    /\ (pc = "scan" /\ processed # <<>>) =>
           Len(LastGroup(html_output)) = 1 + Len(current_question.options)

C9_Witness ==
    /\ C9_Case("B")
    /\ C9_BlockOf("B")
    /\ Len(current_question.options) = 3

-----------------------------------------------------------------------------
(* C10 *)

\* one iteration of the scan moves i forward, past no question header, and a
\* header at i is handled by the header branch
C10_Step ==
    (pc = "scan" /\ pc' = "scan") =>
        /\ i' > i
        /\ i' <= Len(quiz_content_lines)
        /\ \A k \in (i + 1)..(i' - 1) : ~IsHeaderAt(quiz_content_lines, k)
        /\ IF IsHeaderAt(quiz_content_lines, i)
           THEN processed' = Append(processed, i)
           ELSE processed' = processed

\* C10: the scan index grows strictly with every iteration on every path and
\* never passes over a question header; so the scan ends (while it has not,
\* i stays within the input and the loop exit or one of the three paths of
\* the loop body is open), and when it has, each header line has been handled
\* as a header exactly once, in order.
C10_ScanAdvances ==
    /\ [][C10_Step]_vars
    /\ [](pc = "scan" =>
            /\ i <= Len(quiz_content_lines)
            /\ \/ ~InLoop(quiz_content_lines, i)
               \/ AtBlank(quiz_content_lines, i)
               \/ AtHeader(quiz_content_lines, i)
               \/ AtOther(quiz_content_lines, i))
    /\ [](pc = "done" => processed = HeaderIndexSeq(quiz_content_lines))

C10_Witness ==
    /\ pc = "done"
    /\ Len(processed) = 2
    /\ processed[1] = 1
    /\ processed[2] = 2
    /\ Strip(quiz_content_lines[1]) = <<>>

====
